---- MODULE Spec2Model ----
(***************************************************************************)
(* Model of utils/excel_export.py: create_excel_report (the styled,        *)
(* single-sheet report) and create_detailed_excel_report (the three-sheet  *)
(* workbook).                                                              *)
(*                                                                         *)
(* Python strings are sequences of characters (one-character TLA+ strings; *)
(* the token "sup2" stands for the single character U+00B2, SUPERSCRIPT    *)
(* TWO, for which str.isdigit() is True and int() raises ValueError).      *)
(* Python values are tagged records: [t |-> "str", s |-> <<...>>],         *)
(* [t |-> "int", n |-> k] and [t |-> "none"].  A result record is a        *)
(* function from the keys it holds to values; a key outside its DOMAIN is  *)
(* absent.                                                                 *)
(***************************************************************************)
EXTENDS Integers, Sequences, FiniteSets, TLC

\* ------------------------------------------------------------------ bounds
\* Longest fully heterogeneous list of records drawn in Init.
MaxRecs == 2
\* Longest list of records that differ only in their URL.
MaxUrlRecs == 1
\* Longest homogeneous list of records (reaches past column Z).
MaxLong == 27

\* --------------------------------------------------------- Python values
StrV(s) == [t |-> "str", s |-> s]
IntV(n) == [t |-> "int", n |-> n]
NoneV == [t |-> "none"]

IsStr(v) == v.t = "str"
IsInt(v) == v.t = "int"
IsNone(v) == v.t = "none"

Digits == <<"0", "1", "2", "3", "4", "5", "6", "7", "8", "9">>
DigitChars == {Digits[i] : i \in 1..10}
\* Characters that str.isdigit() accepts and int() rejects.
NonDecimalDigitChars == {"sup2"}

DigitVal(c) == (CHOOSE i \in 1..10 : Digits[i] = c) - 1

RECURSIVE NatToStr(_)
NatToStr(n) == IF n < 10 THEN <<Digits[n + 1]>>
               ELSE NatToStr(n \div 10) \o <<Digits[(n % 10) + 1]>>

\* str(int)
IntToStr(n) == IF n < 0 THEN <<"-">> \o NatToStr(-n) ELSE NatToStr(n)

NoneText == <<"N", "o", "n", "e">>

\* str(value)
PyStr(v) == IF IsStr(v) THEN v.s ELSE IF IsInt(v) THEN IntToStr(v.n) ELSE NoneText

\* s.isdigit(): non-empty and every character is a digit character.
IsDigit(s) == /\ Len(s) > 0
              /\ \A i \in 1..Len(s) : s[i] \in DigitChars \cup NonDecimalDigitChars

RECURSIVE DecValue(_)
DecValue(s) == IF Len(s) = 0 THEN 0
               ELSE 10 * DecValue(SubSeq(s, 1, Len(s) - 1)) + DigitVal(s[Len(s)])

\* int(value) raises ValueError on a string holding a non-decimal digit and
\* TypeError on None; the callers only reach it with str(value).isdigit().
IntRaises(v) == \/ IsNone(v)
                \/ IsStr(v) /\ \E i \in 1..Len(v.s) : v.s[i] \notin DigitChars
                \/ IsStr(v) /\ Len(v.s) = 0

\* int(value), where it does not raise.
PyInt(v) == IF IsInt(v) THEN v.n ELSE DecValue(v.s)

\* bool(value): the truth value Python gives in `value and ...`.
Truthy(v) == IF IsStr(v) THEN Len(v.s) > 0 ELSE IF IsInt(v) THEN v.n # 0 ELSE FALSE

\* ------------------------------------------------------- string helpers
\* s.startswith(p)
StartsWith(s, p) == Len(s) >= Len(p) /\ SubSeq(s, 1, Len(p)) = p

\* The index of the first occurrence of sep in s at or after i, 0 if none.
RECURSIVE FindFrom(_, _, _)
FindFrom(s, sep, i) ==
    IF i + Len(sep) - 1 > Len(s) THEN 0
    ELSE IF SubSeq(s, i, i + Len(sep) - 1) = sep THEN i
    ELSE FindFrom(s, sep, i + 1)

\* sub in s
Contains(s, sub) == FindFrom(s, sub, 1) # 0

\* s.split(sep): the pieces between the non-overlapping occurrences of sep,
\* scanned left to right.
RECURSIVE Split(_, _)
Split(s, sep) ==
    LET k == FindFrom(s, sep, 1) IN
    IF k = 0 THEN <<s>>
    ELSE <<SubSeq(s, 1, k - 1)>> \o Split(SubSeq(s, k + Len(sep), Len(s)), sep)

\* s.replace(old, ""): every non-overlapping occurrence of old removed.
RECURSIVE RemoveAll(_, _)
RemoveAll(s, old) ==
    LET k == FindFrom(s, old, 1) IN
    IF k = 0 THEN s
    ELSE SubSeq(s, 1, k - 1) \o RemoveAll(SubSeq(s, k + Len(old), Len(s)), old)

Max2(a, b) == IF a >= b THEN a ELSE b
Min2(a, b) == IF a <= b THEN a ELSE b

RECURSIVE SumSeq(_)
SumSeq(q) == IF Len(q) = 0 THEN 0 ELSE q[1] + SumSeq(Tail(q))

\* ------------------------------------------------------ program literals
TitleText == <<"R","a","t","e","M","y","S","i","t","e"," ","A","n","a","l","y","s","i","s"," ","R","e","p","o","r","t">>
GeneratedPrefix == <<"G","e","n","e","r","a","t","e","d"," ","o","n",":"," ">>
TotalPrefix == <<"T","o","t","a","l"," ","s","i","t","e","s"," ","a","n","a","l","y","z","e","d",":"," ">>
NoResultsText == <<"N","o"," ","r","e","s","u","l","t","s"," ","t","o"," ","d","i","s","p","l","a","y">>
CategoryText == <<"C","a","t","e","g","o","r","y">>
SummaryText == <<"S","u","m","m","a","r","y"," ","S","t","a","t","i","s","t","i","c","s">>
AveragePrefix == <<"A","v","e","r","a","g","e"," ">>
UnknownText == <<"U","n","k","n","o","w","n">>
ScoreText == <<"S","c","o","r","e">>
WwwDot == <<"w","w","w",".">>
HttpScheme == <<"h","t","t","p",":","/","/">>
HttpsScheme == <<"h","t","t","p","s",":","/","/">>
Dash == <<"-">>
Slash == <<"/">>
SlashSlash == <<"/","/">>
Empty == <<>>

K_URL == <<"U","R","L">>
K_Company == <<"C","o","m","p","a","n","y">>
K_Overall == <<"O","v","e","r","a","l","l"," ","S","c","o","r","e">>
K_Consumer == <<"C","o","n","s","u","m","e","r"," ","S","c","o","r","e">>
K_Developer == <<"D","e","v","e","l","o","p","e","r"," ","S","c","o","r","e">>
K_Investor == <<"I","n","v","e","s","t","o","r"," ","S","c","o","r","e">>
K_Trust == <<"T","r","u","s","t"," ","S","c","o","r","e">>
K_UX == <<"U","X"," ","S","c","o","r","e">>
K_Clarity == <<"C","l","a","r","i","t","y"," ","S","c","o","r","e">>
K_Visual == <<"V","i","s","u","a","l"," ","D","e","s","i","g","n"," ","S","c","o","r","e">>
K_ValueProp == <<"V","a","l","u","e"," ","P","r","o","p"," ","S","c","o","r","e">>
K_Raw == <<"_","r","a","w">>

\* datetime.now().strftime('%Y-%m-%d %H:%M:%S'): always 19 characters.
TimeStamp == <<"2","0","2","6","-","0","1","-","0","1"," ","0","0",":","0","0",":","0","0">>

start_row == 5
ScoreGreenMin == 80
ScoreYellowMin == 60
MinWidth == 10
MaxWidth == 50
WidthPadding == 2
OrdA == 65
OrdZ == 90

\* The columns of the "Summary" sheet, in order.
summary_columns == <<K_URL, K_Company, K_Overall, K_Consumer, K_Developer,
                     K_Investor, K_Trust, K_UX>>

\* The score columns of the "Scores Comparison" sheet, in order.
score_columns == <<K_Overall, K_Consumer, K_Developer, K_Investor, K_Clarity,
                   K_Visual, K_UX, K_Trust, K_ValueProp>>

\* result.get(key, default)
Get(result, key, default) == IF key \in DOMAIN result THEN result[key] ELSE default

\* -------------------------------------------------------------- worksheet
\* A cell: its value and the styles the program sets on it.
Cell(value, font, fill, link) == [value |-> value, font |-> font, fill |-> fill, link |-> link]

\* ws[coord] = ...: the cell at coord = <<column, row>> is (re)written.
SetCell(w, coord, cell) ==
    [x \in DOMAIN w \cup {coord} |-> IF x = coord THEN cell ELSE w[x]]

\* chr(ord('A') + col_idx - 1), as a code point.
ColLetter(col_idx) == OrdA + col_idx - 1

\* ws[f'{col_letter}{row}'] raises ValueError unless the letter is a column
\* name; the code points after 'Z' are '[', '\', ']', ...
ValidColLetter(code) == code >= OrdA /\ code <= OrdZ

\* The URL header label of a record: the try/except block of the header loop.
DomainLabel(result) ==
    LET url == Get(result, K_URL, StrV(UnknownText)) IN
    IF ~IsStr(url) THEN url
    ELSE IF StartsWith(url.s, HttpScheme) \/ StartsWith(url.s, HttpsScheme)
         THEN StrV(RemoveAll(Split(Split(url.s, SlashSlash)[2], Slash)[1], WwwDot))
         ELSE url

\* Faulty variant: the `if value is None` replacement is missing.
DataValue_KeepNone(result, row_key) == Get(result, row_key, StrV(Dash))

\* value = result.get(row_key, '-'); if value is None: value = '-'
DataValue(result, row_key) ==
    LET value == Get(result, row_key, StrV(Dash)) IN
    IF IsNone(value) THEN StrV(Dash) ELSE value

\* Faulty variant: only string values are tested for digits (value.isdigit() guarded
\* by isinstance(value, str)).
IsScoreCell_StringsOnly(row_key, value) ==
    /\ Contains(row_key, ScoreText)
    /\ value # StrV(Dash)
    /\ IsStr(value)
    /\ IsDigit(value.s)

\* 'Score' in row_key and value != '-' and str(value).isdigit()
IsScoreCell(row_key, value) ==
    /\ Contains(row_key, ScoreText)
    /\ value # StrV(Dash)
    /\ IsDigit(PyStr(value))

\* Faulty variant: the green tier starts above 80 instead of at 80.
TierFill_ExclusiveGreen(score) ==
    IF score > ScoreGreenMin THEN "green"
    ELSE IF score >= ScoreYellowMin THEN "yellow"
    ELSE "red"

\* The if / elif / elif chain that picks the fill of a score cell.
TierFill(score) ==
    IF score >= ScoreGreenMin THEN "green"
    ELSE IF score >= ScoreYellowMin THEN "yellow"
    ELSE IF score < ScoreYellowMin THEN "red"
    ELSE "none"

\* The data cell of one record in one row; raises tells whether int(value)
\* raised after the font was set.
DataCell(result, row_key) ==
    LET value == DataValue(result, row_key) IN
    IF IsScoreCell(row_key, value)
    THEN IF IntRaises(value)
         THEN [cell |-> Cell(StrV(PyStr(value)), "score", "none", NoneV), raises |-> TRUE]
         ELSE [cell |-> Cell(StrV(PyStr(value)), "score", TierFill(PyInt(value)), NoneV),
               raises |-> FALSE]
    ELSE IF row_key = K_URL /\ value # StrV(Dash)
         THEN [cell |-> Cell(StrV(PyStr(value)), "link", "none", value), raises |-> FALSE]
         ELSE [cell |-> Cell(StrV(PyStr(value)), "default", "none", NoneV), raises |-> FALSE]

\* The worksheet after one pass of the outer data-row loop: the category cell
\* in column A, then the cells of the records up to (and including) the first
\* one whose int(value) raises.
FirstRaise(res, row_key) ==
    LET bad == {j \in 1..Len(res) : DataCell(res[j], row_key).raises} IN
    IF bad = {} THEN 0 ELSE CHOOSE j \in bad : \A k \in bad : j <= k

DataRow(w, res, row, row_key, row_display) ==
    LET stop == FirstRaise(res, row_key)
        last == IF stop = 0 THEN Len(res) ELSE stop
        withA == SetCell(w, <<1, row>>, Cell(StrV(row_display), "subheader", "subheader", NoneV))
    IN [x \in DOMAIN withA \cup {<<j + 1, row>> : j \in 1..last} |->
           IF x[2] = row /\ x[1] >= 2 /\ x[1] <= last + 1
           THEN DataCell(res[x[1] - 1], row_key).cell
           ELSE withA[x]]

\* score_fields = [key for key, _ in table_rows if 'Score' in key]
RECURSIVE ScoreFields(_)
ScoreFields(rows) ==
    IF Len(rows) = 0 THEN <<>>
    ELSE (IF Contains(rows[1][1], ScoreText) THEN <<rows[1][1]>> ELSE <<>>)
         \o ScoreFields(Tail(rows))

\* value != '-' and str(value).isdigit(), on the raw result.get(field, '-')
IsAveraged(result, score_field) ==
    LET value == Get(result, score_field, StrV(Dash)) IN
    value # StrV(Dash) /\ IsDigit(PyStr(value))

\* Faulty variant: a missing or non-numeric value is counted as 0.
RECURSIVE FieldScores_ZeroForMissing(_, _)
FieldScores_ZeroForMissing(res, score_field) ==
    IF Len(res) = 0 THEN <<>>
    ELSE (IF IsAveraged(res[1], score_field)
          THEN <<PyInt(Get(res[1], score_field, StrV(Dash)))>> ELSE <<0>>)
         \o FieldScores_ZeroForMissing(Tail(res), score_field)

\* The list `scores` the summary loop builds for one field.
RECURSIVE FieldScores(_, _)
FieldScores(res, score_field) ==
    IF Len(res) = 0 THEN <<>>
    ELSE (IF IsAveraged(res[1], score_field)
          THEN <<PyInt(Get(res[1], score_field, StrV(Dash)))>> ELSE <<>>)
         \o FieldScores(Tail(res), score_field)

\* int(value) in the summary loop raises for some record of the field.
AverageRaises(res, score_field) ==
    \E j \in 1..Len(res) : /\ IsAveraged(res[j], score_field)
                           /\ IntRaises(Get(res[j], score_field, StrV(Dash)))

\* f"{sum(scores) / len(scores):.1f}": the quotient rounded to one decimal,
\* ties to even (a tie is a quotient ending in .x5 exactly, which for fewer
\* than 20 scores is .25 or .75 and is exact in binary floating point).
FormatAverage(total, count) ==
    LET q == (10 * total) \div count
        r == (10 * total) % count
        t == IF 2 * r > count THEN q + 1
             ELSE IF 2 * r = count THEN q + (q % 2)
             ELSE q
    IN NatToStr(t \div 10) \o <<".">> \o <<Digits[(t % 10) + 1]>>

\* len(str(cell.value)) for a cell of the grid; a cell never written holds None.
CellTextLen(w, coord) ==
    IF coord \in DOMAIN w THEN Len(PyStr(w[coord].value)) ELSE Len(NoneText)

MaxCol(w) == CHOOSE c \in {x[1] : x \in DOMAIN w} : \A x \in DOMAIN w : x[1] <= c
MaxRow(w) == CHOOSE r \in {x[2] : x \in DOMAIN w} : \A x \in DOMAIN w : x[2] <= r

\* max_length of one column: the loop over the cells of rows 1..max_row.
ColumnMaxLen(w, col) ==
    LET lens == {CellTextLen(w, <<col, r>>) : r \in 1..MaxRow(w)} IN
    CHOOSE m \in lens \cup {0} : \A l \in lens \cup {0} : l <= m

\* Faulty variant: the minimum width is not applied.
AdjustedWidth_NoFloor(max_length) == Min2(max_length + WidthPadding, MaxWidth)

\* adjusted_width = min(max(max_length + 2, 10), 50)
AdjustedWidth(max_length) == Min2(Max2(max_length + WidthPadding, MinWidth), MaxWidth)

\* ------------------------------------------------------- detailed report
\* The missing-value marker pandas puts where a record lacks a column.
NaNV == [t |-> "nan"]

\* The insertion order of the keys of a result record.
KeyOrder == <<K_URL, K_Company, K_Overall, K_UX, K_Raw>>

\* summary_data: one row per result, result.get(column, '') for each column.
SummaryRow(result) ==
    [c \in {summary_columns[k] : k \in 1..Len(summary_columns)} |->
        Get(result, c, StrV(Empty))]

SummaryData(res) == [j \in 1..Len(res) |-> SummaryRow(res[j])]

\* The columns of pd.DataFrame(results): the keys in first-seen order.
RECURSIVE AppendNew(_, _, _)
AppendNew(cols, result, k) ==
    IF k > Len(KeyOrder) THEN cols
    ELSE LET key == KeyOrder[k]
             seen == \E n \in 1..Len(cols) : cols[n] = key
             next == IF key \in DOMAIN result /\ ~seen THEN Append(cols, key) ELSE cols
         IN IF Len(next) >= 0 THEN AppendNew(next, result, k + 1) ELSE next

RECURSIVE FrameColumns(_, _)
FrameColumns(res, cols) ==
    IF Len(res) = 0 THEN cols
    ELSE LET next == AppendNew(cols, res[1], 1)
         IN IF Len(next) >= 0 THEN FrameColumns(Tail(res), next) ELSE next

\* detailed_df.drop('_raw', axis=1) when the column exists.
DropRaw(cols) == SelectSeq(cols, LAMBDA c : c # K_Raw)

DetailedColumns(res) == DropRaw(FrameColumns(res, <<>>))

DetailedData(res) ==
    LET cols == DetailedColumns(res) IN
    [j \in 1..Len(res) |->
        [c \in {cols[k] : k \in 1..Len(cols)} |-> Get(res[j], c, NaNV)]]

\* row[col] = int(value) if value and str(value).isdigit() else None, with
\* the bare except turning a raising int() into None.
ScoreCoerce(value) ==
    IF Truthy(value) /\ IsDigit(PyStr(value))
    THEN IF IntRaises(value) THEN NoneV ELSE IntV(PyInt(value))
    ELSE NoneV

ScoresRow(result) ==
    [c \in {K_URL} \cup {score_columns[k] : k \in 1..Len(score_columns)} |->
        IF c = K_URL THEN Get(result, K_URL, StrV(Empty))
        ELSE ScoreCoerce(Get(result, c, StrV(Empty)))]

ScoresData(res) == [j \in 1..Len(res) |-> ScoresRow(res[j])]

\* df.to_excel(writer, sheet_name=name, index=False)
Sheet(name, columns, rows) == [name |-> name, columns |-> columns, rows |-> rows]

\* Leaving the `with pd.ExcelWriter(...)` block saves the workbook; the
\* writer starts from an empty workbook, and saving a workbook that holds no
\* sheet raises IndexError ("At least one sheet must be visible").
CloseRaises(written) == Len(written) = 0

\* ----------------------------------------------------------------- inputs
Absent == [t |-> "absent"]

\* A result record from optional fields (Absent: the key is not present).
Rec(url, company, overall, ux, raw) ==
    LET f == [k \in {K_URL, K_Company, K_Overall, K_UX, K_Raw} |->
                 IF k = K_URL THEN url
                 ELSE IF k = K_Company THEN company
                 ELSE IF k = K_Overall THEN overall
                 ELSE IF k = K_UX THEN ux
                 ELSE raw]
    IN [k \in {x \in DOMAIN f : f[x] # Absent} |-> f[k]]

Url_a == HttpScheme \o <<"a",".","c","o","m">>
Url_example == HttpsScheme \o WwwDot \o <<"E","x","a","m","p","l","e",".","c","o","m","/","p","a","t","h">>
Url_mywww == HttpsScheme \o <<"m","y">> \o WwwDot \o <<"s","i","t","e",".","c","o","m","/","x">>
Url_path2 == HttpsScheme \o <<"a",".","c","o","m","/","p","/","/","q">>
Url_ftp == <<"f","t","p",":","/","/">> \o WwwDot \o <<"x",".","c","o","m">>
Url_not == <<"n","o","t","-","a","-","u","r","l">>
Url_abc == <<"a","b","c">>
Text_NA == <<"N","/","A">>
Text_Acme == <<"A","c","m","e">>
Text_Long == [k \in 1..60 |-> "x"]

UrlVals == {Absent, NoneV, IntV(7), StrV(Empty), StrV(Url_a), StrV(Url_example),
            StrV(Url_mywww), StrV(Url_path2), StrV(Url_ftp),
            StrV(Url_not), StrV(Url_abc), StrV(HttpScheme)}

ScoreVals == {Absent, NoneV, StrV(Empty), StrV(Dash), StrV(Text_NA), StrV(<<"sup2">>),
              StrV(<<"0">>), StrV(<<"5","9">>), StrV(<<"6","0">>), StrV(<<"7","9">>),
              StrV(<<"8","0">>), StrV(<<"1","0","0">>), IntV(0), IntV(85), IntV(-5)}

UxVals == {Absent, StrV(<<"7","0">>)}

CompanyVals == {Absent, StrV(Text_Acme), StrV(Text_Long)}

Row(key) == <<key, key>>

FullTable == <<Row(K_URL), <<K_Company, Text_Acme>>, Row(K_Overall), Row(K_UX)>>
ScoreTable == <<Row(K_UX), Row(K_Overall)>>
UrlTable == <<Row(K_URL), Row(K_Company)>>

\* All sequences over S of length lo..hi.
SeqsOf(S, lo, hi) == UNION {[1..n -> S] : n \in lo..hi}

\* Records that differ in their score values (one shared UX Score value).
ScoreInputs ==
    {[results |-> r, table_rows |-> t] :
        r \in UNION {SeqsOf({Rec(StrV(Url_a), Absent, v, ux, Absent) : v \in ScoreVals},
                            0, MaxRecs) : ux \in UxVals},
        t \in {FullTable, ScoreTable, <<>>}}

\* Records that differ in their URL and Company values.
UrlInputs ==
    {[results |-> r, table_rows |-> t] :
        r \in SeqsOf({Rec(u, c, StrV(<<"8","5">>), Absent, Absent) :
                          u \in UrlVals, c \in CompanyVals}, 1, MaxUrlRecs),
        t \in {UrlTable}}

\* A short column next to a long one.
WidthInputs ==
    {[results |-> <<Rec(StrV(Url_abc), Absent, Absent, Absent, Absent),
                    Rec(StrV(Url_a), StrV(Text_Long), Absent, Absent, Absent)>>,
      table_rows |-> UrlTable]}

\* The list [r] * n.
RECURSIVE Repeat(_, _)
Repeat(r, n) == IF n = 0 THEN <<>> ELSE Append(Repeat(r, n - 1), r)

\* Long lists of one and the same record.
LongInputs ==
    {[results |-> Repeat(r, n), table_rows |-> FullTable] :
        n \in (MaxRecs + 1)..MaxLong,
        r \in {Rec(StrV(Url_example), StrV(Text_Acme), StrV(<<"8","5">>), Absent,
                   StrV(Text_NA))}}

Inputs == ScoreInputs \cup UrlInputs \cup WidthInputs \cup LongInputs

\* ------------------------------------------------------------------ state
VARIABLES
    fn,           \* the function called: "styled" or "detailed"
    results,      \* the argument `results`
    table_rows,   \* the argument `table_rows` (styled report only)
    pc,           \* the position in the function body
    ws,           \* the worksheet: <<column, row>> -> cell (styled report)
    current_row,  \* the local current_row
    idx,          \* the index of the running loop
    widths,       \* ws.column_dimensions[...].width, by column
    sheets,       \* the sheets written to the ExcelWriter, in order
    saved,        \* the number of times the output file was saved
    error         \* the exception that ended the call, "" if none

vars == <<fn, results, table_rows, pc, ws, current_row, idx, widths, sheets, saved, error>>

EmptySheet == [x \in {} |-> Cell(NoneV, "default", "none", NoneV)]
NoWidths == [c \in {} |-> 0]

Init ==
    /\ \E inp \in Inputs : results = inp.results /\ table_rows = inp.table_rows
    /\ fn \in {"styled", "detailed"}
    /\ pc = IF fn = "styled" THEN "title" ELSE "summary_sheet"
    /\ ws = EmptySheet
    /\ current_row = 0
    /\ idx = 0
    /\ widths = NoWidths
    /\ sheets = <<>>
    /\ saved = 0
    /\ error = ""

\* ---------------------------------------------------- create_excel_report
\* Title and metadata in A1..A3; start_row = 5.
WriteTitle ==
    /\ pc = "title"
    /\ ws' = SetCell(SetCell(SetCell(ws,
                <<1, 1>>, Cell(StrV(TitleText), "title", "none", NoneV)),
                <<1, 2>>, Cell(StrV(GeneratedPrefix \o TimeStamp), "default", "none", NoneV)),
                <<1, 3>>, Cell(StrV(TotalPrefix \o IntToStr(Len(results))), "default", "none", NoneV))
    /\ current_row' = start_row
    /\ pc' = "branch"
    /\ UNCHANGED <<fn, results, table_rows, idx, widths, sheets, saved, error>>

\* Faulty variant: the early return does not save the workbook.
EmptyReport_NoSave ==
    /\ pc = "branch"
    /\ Len(results) = 0
    /\ ws' = SetCell(ws, <<1, current_row>>, Cell(StrV(NoResultsText), "default", "none", NoneV))
    /\ pc' = "done"
    /\ UNCHANGED <<fn, results, table_rows, current_row, idx, widths, sheets, saved, error>>

\* if not results: the placeholder, wb.save(filepath), return.
EmptyReport ==
    /\ pc = "branch"
    /\ Len(results) = 0
    /\ ws' = SetCell(ws, <<1, current_row>>, Cell(StrV(NoResultsText), "default", "none", NoneV))
    /\ saved' = saved + 1
    /\ pc' = "done"
    /\ UNCHANGED <<fn, results, table_rows, current_row, idx, widths, sheets, error>>

\* The "Category" header cell in column A.
WriteCategoryHeader ==
    /\ pc = "branch"
    /\ Len(results) > 0
    /\ ws' = SetCell(ws, <<1, current_row>>, Cell(StrV(CategoryText), "header", "header", NoneV))
    /\ idx' = 1
    /\ pc' = "headers"
    /\ UNCHANGED <<fn, results, table_rows, current_row, widths, sheets, saved, error>>

\* One pass of the URL header loop (col_idx = idx + 1); current_row += 1
\* after the last pass.
WriteUrlHeader ==
    /\ pc = "headers"
    /\ idx <= Len(results)
    /\ LET col_idx == idx + 1 IN
       IF ValidColLetter(ColLetter(col_idx))
       THEN /\ ws' = SetCell(ws, <<col_idx, current_row>>,
                             Cell(DomainLabel(results[idx]), "header", "header", NoneV))
            /\ IF idx = Len(results)
               THEN /\ current_row' = current_row + 1
                    /\ idx' = 1
                    /\ pc' = "rows"
                    /\ UNCHANGED error
               ELSE /\ idx' = idx + 1
                    /\ UNCHANGED <<current_row, pc, error>>
       ELSE \* ValueError: not a valid coordinate
            /\ pc' = "raised"
            /\ error' = "ValueError: not a valid coordinate"
            /\ UNCHANGED <<ws, current_row, idx>>
    /\ UNCHANGED <<fn, results, table_rows, widths, sheets, saved>>

\* One pass of the data-row loop, with its inner loop over the records.
WriteDataRow ==
    /\ pc = "rows"
    /\ idx <= Len(table_rows)
    /\ LET row_key == table_rows[idx][1]
           row_display == table_rows[idx][2]
       IN /\ ws' = DataRow(ws, results, current_row, row_key, row_display)
          /\ IF FirstRaise(results, row_key) # 0
             THEN \* ValueError from int(value)
                  /\ pc' = "raised"
                  /\ error' = "ValueError: invalid literal for int()"
                  /\ UNCHANGED <<current_row, idx>>
             ELSE /\ current_row' = current_row + 1
                  /\ idx' = idx + 1
                  /\ pc' = pc
                  /\ UNCHANGED error
    /\ UNCHANGED <<fn, results, table_rows, widths, sheets, saved>>

\* current_row += 2; the "Summary Statistics" label; current_row += 1.
WriteSummaryHeader ==
    /\ pc = "rows"
    /\ idx > Len(table_rows)
    /\ ws' = SetCell(ws, <<1, current_row + 2>>, Cell(StrV(SummaryText), "summary", "none", NoneV))
    /\ current_row' = current_row + 3
    /\ idx' = 1
    /\ pc' = "averages"
    /\ UNCHANGED <<fn, results, table_rows, widths, sheets, saved, error>>

\* One pass of the loop over score_fields.
WriteAverage ==
    /\ pc = "averages"
    /\ idx <= Len(ScoreFields(table_rows))
    /\ LET score_field == ScoreFields(table_rows)[idx]
           scores == FieldScores(results, score_field)
       IN IF AverageRaises(results, score_field)
          THEN /\ pc' = "raised"
               /\ error' = "ValueError: invalid literal for int()"
               /\ UNCHANGED <<ws, current_row, idx>>
          ELSE /\ idx' = idx + 1
               /\ pc' = pc
               /\ UNCHANGED error
               /\ IF Len(scores) > 0
                  THEN /\ ws' = SetCell(SetCell(ws,
                                  <<1, current_row>>,
                                  Cell(StrV(AveragePrefix \o score_field \o <<":">>),
                                       "default", "none", NoneV)),
                                  <<2, current_row>>,
                                  Cell(StrV(FormatAverage(SumSeq(scores), Len(scores))),
                                       "default", "none", NoneV))
                       /\ current_row' = current_row + 1
                  ELSE UNCHANGED <<ws, current_row>>
    /\ UNCHANGED <<fn, results, table_rows, widths, sheets, saved>>

\* The loop over ws.columns that sets every column's width.
AdjustWidths ==
    /\ pc = "averages"
    /\ idx > Len(ScoreFields(table_rows))
    /\ widths' = [c \in 1..MaxCol(ws) |-> AdjustedWidth(ColumnMaxLen(ws, c))]
    /\ pc' = "save"
    /\ UNCHANGED <<fn, results, table_rows, ws, current_row, idx, sheets, saved, error>>

\* wb.save(filepath)
SaveWorkbook ==
    /\ pc = "save"
    /\ saved' = saved + 1
    /\ pc' = "done"
    /\ UNCHANGED <<fn, results, table_rows, ws, current_row, idx, widths, sheets, error>>

\* ------------------------------------------- create_detailed_excel_report
\* summary_data and, if it is not empty, the "Summary" sheet.
WriteSummarySheet ==
    /\ pc = "summary_sheet"
    /\ sheets' = IF Len(SummaryData(results)) > 0
                 THEN Append(sheets, Sheet("Summary", summary_columns, SummaryData(results)))
                 ELSE sheets
    /\ pc' = "detailed_sheet"
    /\ UNCHANGED <<fn, results, table_rows, ws, current_row, idx, widths, saved, error>>

\* if results: the "Detailed Data" sheet, without the _raw column.
WriteDetailedSheet ==
    /\ pc = "detailed_sheet"
    /\ sheets' = IF Len(results) > 0
                 THEN Append(sheets, Sheet("Detailed Data", DetailedColumns(results),
                                           DetailedData(results)))
                 ELSE sheets
    /\ pc' = "scores_sheet"
    /\ UNCHANGED <<fn, results, table_rows, ws, current_row, idx, widths, saved, error>>

\* scores_data and, if it is not empty, the "Scores Comparison" sheet.
WriteScoresSheet ==
    /\ pc = "scores_sheet"
    /\ sheets' = IF Len(ScoresData(results)) > 0
                 THEN Append(sheets, Sheet("Scores Comparison", <<K_URL>> \o score_columns,
                                           ScoresData(results)))
                 ELSE sheets
    /\ pc' = "close"
    /\ UNCHANGED <<fn, results, table_rows, ws, current_row, idx, widths, saved, error>>

\* The end of the `with pd.ExcelWriter(...)` block.
CloseWriter ==
    /\ pc = "close"
    /\ IF CloseRaises(sheets)
       THEN pc' = "raised" /\ error' = "IndexError: At least one sheet must be visible"
                           /\ UNCHANGED saved
       ELSE pc' = "done" /\ saved' = saved + 1 /\ UNCHANGED error
    /\ UNCHANGED <<fn, results, table_rows, ws, current_row, idx, widths, sheets>>

Next ==
    \/ WriteTitle
    \/ EmptyReport
    \/ WriteCategoryHeader
    \/ WriteUrlHeader
    \/ WriteDataRow
    \/ WriteSummaryHeader
    \/ WriteAverage
    \/ AdjustWidths
    \/ SaveWorkbook
    \/ WriteSummarySheet
    \/ WriteDetailedSheet
    \/ WriteScoresSheet
    \/ CloseWriter

Spec == Init /\ [][Next]_vars

\* =================================================================== claims
\* What the properties say, stated on the inputs and on the written output.

Styled == fn = "styled"
Detailed == fn = "detailed"

\* The record's field is present and not None.
Present(result, key) == key \in DOMAIN result /\ ~IsNone(result[key])

\* The field stringifies to a non-empty run of the decimal digits 0..9: a
\* non-negative integer.
IsNumeric(result, key) ==
    /\ Present(result, key)
    /\ LET text == PyStr(result[key]) IN
       Len(text) > 0 /\ \A n \in 1..Len(text) : text[n] \in DigitChars

NumericValue(result, key) == DecValue(PyStr(result[key]))

\* The worksheet row of the k-th row descriptor, and the sheet positions of
\* the data cells that have been written.
DataRowOf(k) == start_row + k
DataCells ==
    {<<j, k>> \in (1..Len(results)) \X (1..Len(table_rows)) :
        <<j + 1, DataRowOf(k)>> \in DOMAIN ws}
DataCellAt(j, k) == ws[<<j + 1, DataRowOf(k)>>]
KeyOf(k) == table_rows[k][1]

TierFills == {"green", "yellow", "red"}

\* C1: a data cell of a "Score" row whose value is a non-negative integer is
\* bold and filled green iff v >= 80, yellow iff 60 <= v < 80, red iff v < 60;
\* every other data cell carries no tier fill.
C1_TierFill ==
    Styled =>
    \A c \in DataCells :
        LET j == c[1]
            k == c[2]
            cell == DataCellAt(j, k)
        IN IF Contains(KeyOf(k), ScoreText) /\ IsNumeric(results[j], KeyOf(k))
           THEN LET v == NumericValue(results[j], KeyOf(k)) IN
                /\ cell.font = "score"
                /\ cell.fill \in TierFills
                /\ (cell.fill = "green" <=> v >= 80)
                /\ (cell.fill = "yellow" <=> (60 <= v /\ v < 80))
                /\ (cell.fill = "red" <=> v < 60)
           ELSE cell.fill \notin TierFills

C1_Witness ==
    /\ Styled /\ pc = "done"
    /\ \E c \in DataCells : /\ DataCellAt(c[1], c[2]).fill = "green"
                            /\ DataCellAt(c[1], c[2]).value = StrV(<<"8","0">>)
    /\ \E c \in DataCells : /\ DataCellAt(c[1], c[2]).fill = "red"
                            /\ DataCellAt(c[1], c[2]).value = StrV(<<"5","9">>)

\* C2 (as stated): a data cell holds str(value), or "-" when the value is
\* missing (absent or None) or the empty string; no data cell is "".
C2_PlaceholderForMissingOrEmpty ==
    Styled =>
    \A c \in DataCells :
        LET result == results[c[1]]
            key == KeyOf(c[2])
            cell == DataCellAt(c[1], c[2])
        IN /\ cell.value # StrV(Empty)
           /\ cell.value = IF Present(result, key) /\ result[key] # StrV(Empty)
                           THEN StrV(PyStr(result[key]))
                           ELSE StrV(Dash)

\* C2 (amended): a data cell holds "-" when the key is absent or its value is
\* None, and str(value) otherwise; an empty string is written as it is.
C2_PlaceholderForMissing ==
    Styled =>
    \A c \in DataCells :
        LET result == results[c[1]]
            key == KeyOf(c[2])
            cell == DataCellAt(c[1], c[2])
        IN cell.value = IF Present(result, key)
                        THEN StrV(PyStr(result[key]))
                        ELSE StrV(Dash)

C2_Witness ==
    /\ Styled /\ pc = "done"
    /\ \E c \in DataCells : /\ KeyOf(c[2]) \in DOMAIN results[c[1]]
                            /\ IsNone(results[c[1]][KeyOf(c[2])])
                            /\ DataCellAt(c[1], c[2]).value = StrV(Dash)
    /\ \E c \in DataCells : /\ KeyOf(c[2]) \in DOMAIN results[c[1]]
                            /\ results[c[1]][KeyOf(c[2])] = StrV(Empty)
                            /\ DataCellAt(c[1], c[2]).value = StrV(Empty)

\* The label the specification gives a record: scheme stripped, path
\* dropped, one leading "www." removed; the raw value otherwise.
StripLeadingWww(host) ==
    IF StartsWith(host, WwwDot) THEN SubSeq(host, Len(WwwDot) + 1, Len(host)) ELSE host

AfterScheme(text) ==
    IF StartsWith(text, HttpsScheme) THEN SubSeq(text, Len(HttpsScheme) + 1, Len(text))
    ELSE SubSeq(text, Len(HttpScheme) + 1, Len(text))

UpToSlash(text) ==
    LET k == FindFrom(text, Slash, 1) IN IF k = 0 THEN text ELSE SubSeq(text, 1, k - 1)

SpecLabel(result) ==
    LET url == Get(result, K_URL, StrV(UnknownText)) IN
    IF IsStr(url) /\ (StartsWith(url.s, HttpScheme) \/ StartsWith(url.s, HttpsScheme))
    THEN StrV(StripLeadingWww(UpToSlash(AfterScheme(url.s))))
    ELSE url

HeaderCells == {j \in 1..Len(results) : <<j + 1, start_row>> \in DOMAIN ws}

\* C3: the header label of a record is its URL without the scheme and the
\* path and with only a leading "www." removed, or the raw value when the
\* URL is absent or malformed; building it never raises.
C3_HeaderLabel ==
    Styled =>
    \A j \in HeaderCells : ws[<<j + 1, start_row>>].value = SpecLabel(results[j])

\* C4: for non-empty records of any length the header loop completes, and
\* the header row holds "Category" and one label per record, in order, each
\* in its own column.
C4_HeaderRowComplete ==
    (Styled /\ Len(results) > 0) =>
    /\ error # "ValueError: not a valid coordinate"
    /\ pc \in {"rows", "averages", "save", "done"} =>
          /\ {x[1] : x \in {y \in DOMAIN ws : y[2] = start_row}} = 1..(Len(results) + 1)
          /\ ws[<<1, start_row>>].value = StrV(CategoryText)
          /\ \A j \in 1..Len(results) :
                ws[<<j + 1, start_row>>].value = DomainLabel(results[j])

\* The descriptor keys that hold "Score" and have a numeric value in some
\* record, in descriptor order.
AveragedKeys ==
    SelectSeq([k \in 1..Len(table_rows) |-> KeyOf(k)],
              LAMBDA key : /\ Contains(key, ScoreText)
                           /\ \E j \in 1..Len(results) : IsNumeric(results[j], key))

NumericRecords(key) == {j \in 1..Len(results) : IsNumeric(results[j], key)}

RECURSIVE SumOver(_, _)
SumOver(S, key) ==
    IF S = {} THEN 0
    ELSE LET j == CHOOSE x \in S : TRUE
         IN NumericValue(results[j], key) + SumOver(S \ {j}, key)

\* text shows, to one decimal, a number within 0.05 of total / count.
ShowsMean(text, total, count) ==
    \E t \in {(10 * total) \div count, ((10 * total) \div count) + 1} :
        /\ 2 * (10 * total - t * count) <= count
        /\ 2 * (t * count - 10 * total) <= count
        /\ text = NatToStr(t \div 10) \o <<".">> \o NatToStr(t % 10)

SummaryLabelRow == start_row + Len(table_rows) + 3
SummaryLineRow(m) == SummaryLabelRow + m

\* C5: the summary block holds, in descriptor order, one "Average <field>:"
\* line for each "Score" descriptor with at least one numeric value, showing
\* the mean over exactly the numeric values, and no line for the others.
C5_SummaryAverages ==
    (Styled /\ pc \in {"save", "done"}) =>
    /\ \A m \in 1..Len(AveragedKeys) :
          LET key == AveragedKeys[m]
              row == SummaryLineRow(m)
          IN /\ <<1, row>> \in DOMAIN ws /\ <<2, row>> \in DOMAIN ws
             /\ ws[<<1, row>>].value = StrV(AveragePrefix \o key \o <<":">>)
             /\ IsStr(ws[<<2, row>>].value)
             /\ ShowsMean(ws[<<2, row>>].value.s,
                          SumOver(NumericRecords(key), key),
                          Cardinality(NumericRecords(key)))
    /\ \A x \in DOMAIN ws : x[2] <= SummaryLabelRow + Len(AveragedKeys)

C5_Witness ==
    /\ Styled /\ pc = "done"
    /\ Len(AveragedKeys) = 2
    /\ \E j \in 1..Len(results) : ~IsNumeric(results[j], K_Overall)
    /\ \E j \in 1..Len(results) :
          IsNumeric(results[j], K_Overall) /\ NumericValue(results[j], K_Overall) = 59
    /\ \E j \in 1..Len(results) : ~Present(results[j], K_Overall)

TitleBlock == {<<1, 1>>, <<1, 2>>, <<1, 3>>}

\* C6 (as stated): with empty records the saved file holds only the
\* placeholder message, it is saved once, and nothing else is written.
C6_OnlyPlaceholder ==
    (Styled /\ Len(results) = 0 /\ pc = "done") =>
    /\ DOMAIN ws = {<<1, start_row>>}
    /\ ws[<<1, start_row>>].value = StrV(NoResultsText)
    /\ saved = 1
    /\ widths = NoWidths

\* C6 (amended): with empty records the saved file holds the title block
\* (title, timestamp, "Total sites analyzed: 0") and the placeholder message
\* in A5 and nothing else; it is saved once, and no header row, data row,
\* summary block or column width is written.
C6_TitleAndPlaceholder ==
    (Styled /\ Len(results) = 0) =>
    /\ saved <= 1
    /\ pc # "raised"
    /\ widths = NoWidths
    /\ DOMAIN ws \subseteq TitleBlock \cup {<<1, start_row>>}
    /\ pc = "done" =>
          /\ saved = 1
          /\ DOMAIN ws = TitleBlock \cup {<<1, start_row>>}
          /\ ws[<<1, 1>>].value = StrV(TitleText)
          /\ ws[<<1, 2>>].value = StrV(GeneratedPrefix \o TimeStamp)
          /\ ws[<<1, 3>>].value = StrV(TotalPrefix \o <<"0">>)
          /\ ws[<<1, start_row>>].value = StrV(NoResultsText)

C6_Witness == Styled /\ Len(results) = 0 /\ pc = "done" /\ saved = 1

SheetNames == {sheets[n].name : n \in 1..Len(sheets)}
AllSheetNames == {"Summary", "Detailed Data", "Scores Comparison"}
SheetNamed(name) == sheets[CHOOSE n \in 1..Len(sheets) : sheets[n].name = name]

\* C7: each of the three sheets is written iff records is non-empty; a
\* non-empty input writes all three with one row per record in record
\* order, and an empty input writes none and the write session still
\* completes without error.
C7_SheetsIffNonEmpty ==
    Detailed =>
    /\ pc # "raised"
    /\ pc = "done" =>
          /\ SheetNames = IF Len(results) > 0 THEN AllSheetNames ELSE {}
          /\ Len(sheets) = Cardinality(SheetNames)
          /\ \A n \in 1..Len(sheets) :
                /\ Len(sheets[n].rows) = Len(results)
                /\ \A j \in 1..Len(results) :
                      \A c \in DOMAIN sheets[n].rows[j] \cap {K_URL, K_Company} :
                          sheets[n].rows[j][c] =
                              Get(results[j], c,
                                  IF sheets[n].name = "Detailed Data" THEN NaNV ELSE StrV(Empty))

\* C8: every score cell of "Scores Comparison" is the integer value of the
\* source value when that value is a non-negative integer, and empty
\* otherwise; an unscored cell is never 0 and never "-".
C8_ScoreCells ==
    (Detailed /\ "Scores Comparison" \in SheetNames) =>
    LET sheet == SheetNamed("Scores Comparison") IN
    \A j \in 1..Len(results) : \A n \in 1..Len(score_columns) :
        sheet.rows[j][score_columns[n]] =
            IF IsNumeric(results[j], score_columns[n])
            THEN IntV(NumericValue(results[j], score_columns[n]))
            ELSE NoneV

\* The longest stringified value written in a column, 0 if none.
LongestIn(col) ==
    LET lens == {Len(PyStr(ws[x].value)) : x \in {y \in DOMAIN ws : y[1] = col /\ ~IsNone(ws[y].value)}}
    IN IF lens = {} THEN 0 ELSE CHOOSE m \in lens : \A l \in lens : l <= m

Clamp(n, lo, hi) == IF n < lo THEN lo ELSE IF n > hi THEN hi ELSE n

\* C9: with non-empty records, once the cells are written, every used column's width is
\* clamp(L + 2, 10, 50), L being the length of the longest stringified value
\* in the column over all rows; so every width lies in 10..50.
C9_ColumnWidths ==
    (Styled /\ Len(results) > 0 /\ pc \in {"save", "done"}) =>
    /\ DOMAIN widths = {x[1] : x \in DOMAIN ws}
    /\ \A c \in DOMAIN widths :
          /\ widths[c] = Clamp(LongestIn(c) + 2, 10, 50)
          /\ widths[c] >= 10 /\ widths[c] <= 50

C9_Witness ==
    /\ Styled /\ pc = "done"
    /\ \E c \in DOMAIN widths : LongestIn(c) = 3 /\ widths[c] = 10
    /\ \E c \in DOMAIN widths : LongestIn(c) = 60 /\ widths[c] = 50
    /\ \E c \in DOMAIN widths : LongestIn(c) = 33 /\ widths[c] = 35

ScoreRows == {k \in 1..Len(table_rows) : Contains(KeyOf(k), ScoreText)}
FilledIn(k) == {j \in 1..Len(results) : DataCellAt(j, k).fill \in TierFills}
HasAverageLine(key) ==
    \E x \in DOMAIN ws : /\ x[1] = 1 /\ x[2] > SummaryLabelRow
                         /\ ws[x].value = StrV(AveragePrefix \o key \o <<":">>)

\* C10: in a "Score" row the cells that get a tier fill are exactly the
\* cells of the records whose value enters the field's average; the row has
\* an "Average" line iff one of its cells is tier-filled.
C10_FillIffAveraged ==
    (Styled /\ pc \in {"save", "done"}) =>
    \A k \in ScoreRows :
        /\ \A j \in 1..Len(results) : (j \in FilledIn(k)) <=> IsAveraged(results[j], KeyOf(k))
        /\ Cardinality(FilledIn(k)) = Len(FieldScores(results, KeyOf(k)))
        /\ HasAverageLine(KeyOf(k)) <=> FilledIn(k) # {}

C10_Witness ==
    /\ Styled /\ pc = "done"
    /\ \E k \in ScoreRows : /\ FilledIn(k) # {}
                            /\ FilledIn(k) # 1..Len(results)
                            /\ HasAverageLine(KeyOf(k))
    /\ \E k \in ScoreRows : FilledIn(k) = {} /\ ~HasAverageLine(KeyOf(k))

====
